---- MODULE Spec2Model ----
(***************************************************************************)
(* A model of the Claude-to-OpenAI proxy's request path:                   *)
(*   src/src/utils/exa_search.py  - ExaSearchAdapter (search adapter)      *)
(*   src/src/api/endpoints.py     - intercept_websearch_in_request and     *)
(*                                  create_message (POST /v1/messages)     *)
(*                                  validate_api_key and count_tokens      *)
(*                                                                         *)
(* Python strings are modelled as sequences of atoms (words and            *)
(* punctuation marks, each a TLA+ string); `x in s` on strings is the      *)
(* contiguous-subsequence test on atoms.  Python dicts are modelled as     *)
(* ordered sequences of <<key, value>> pairs and JSON-like values as       *)
(* tagged records, so that json.dumps really produces text and the text    *)
(* can really be parsed back.                                              *)
(***************************************************************************)
EXTENDS Integers, Sequences, FiniteSets, TLC

VARIABLES
    messages,        \* request.messages: the conversation, a sequence of turns
    stream,          \* request.stream
    orig,            \* the conversation as it arrived (never assigned after Init)
    api_key,         \* ExaSearchAdapter.api_key is non-empty
    pc,              \* position of the handler
    ai,              \* index of the assistant block the interceptor is at
    uj,              \* index of the user block the interceptor is at
    searchCalls,     \* calls of process_websearch_via_exa made by the interceptor
    networkCalls,    \* HTTP POSTs issued by the search adapter
    sentParams,      \* the json body of the last POST to the search backend
    lastTrigger,     \* <<assistant index, user index>> of the last search made
    steps,           \* the components create_message has invoked, in order
    openai_request,  \* the conversation the request converter was given
    backendCalls,    \* calls of the backend client made by create_message
    raisedExc,       \* the exception raised inside create_message's try block
    response,        \* what create_message returned or raised to the framework
    exa_input,       \* the argument of a direct ExaSearchAdapter.search call
    exa_outcome,     \* what the network did during that call
    exa_result,      \* what that call returned (or that it raised)
    x_api_key,       \* the x-api-key header given to validate_api_key
    authorization,   \* the Authorization header given to validate_api_key
    anthropic_api_key, \* config.anthropic_api_key, the server-side secret
    auth_result,     \* what validate_api_key returned or raised
    count_system,    \* request.system of a count_tokens request
    count_messages,  \* request.messages of a count_tokens request
    total_chars,     \* total_chars of count_tokens
    mi,              \* index of the message count_tokens is at
    count_result     \* what count_tokens returned

vars == <<messages, stream, orig, api_key, pc, ai, uj, searchCalls, networkCalls,
          sentParams, lastTrigger, steps, openai_request, backendCalls, raisedExc,
          response, exa_input, exa_outcome, exa_result, x_api_key, authorization,
          anthropic_api_key, auth_result, count_system, count_messages, total_chars,
          mi, count_result>>

\* the state of validate_api_key and of count_tokens
authVars == <<x_api_key, authorization, anthropic_api_key, auth_result>>
countVars == <<count_system, count_messages, total_chars, mi, count_result>>

----------------------------------------------------------------------------
(* Bounds of the model *)

\* longest list of WebSearch calls in the assistant turn
MaxAssistantBlocks == 2
\* longest list of string tool results in the user turn
MaxUserBlocks == 2
\* number of turns that may precede the last two
MaxEarlierTurns == 1
\* longest block list of a turn in the conversations of any blocks
MaxSideBlocks == 1
\* longest domain list of a WebSearch input
MaxDomains == 1

----------------------------------------------------------------------------
(* Strings as sequences of atoms *)

\* Python's `sub in s` for strings
Contains(s, sub) ==
    \E k \in 1..(Len(s) - Len(sub) + 1) : SubSeq(s, k, k + Len(sub) - 1) = sub

\* all sequences over S of length at most n
RECURSIVE SeqsUpTo(_, _)
SeqsUpTo(S, n) ==
    IF n = 0 THEN {<<>>}
    ELSE LET shorter == SeqsUpTo(S, n - 1)
         IN  shorter \cup {Append(q, e) : q \in {r \in shorter : Len(r) = n - 1}, e \in S}

----------------------------------------------------------------------------
(* JSON-like values and Python dicts *)

JStr(s)   == [t |-> "str", s |-> s]
JNum(n)   == [t |-> "num", n |-> n]
JArr(xs)  == [t |-> "arr", items |-> xs]
JObj(kvs) == [t |-> "obj", items |-> kvs]
JNull     == [t |-> "null"]

\* key in d
DictHas(d, key) == d.t = "obj" /\ \E k \in 1..Len(d.items) : d.items[k][1] = key

\* d.get(key, default)
DictGet(d, key, default) ==
    IF DictHas(d, key)
    THEN d.items[CHOOSE k \in 1..Len(d.items) : d.items[k][1] = key][2]
    ELSE default

\* d[key] = value
DictSet(d, key, value) ==
    IF DictHas(d, key)
    THEN JObj([k \in 1..Len(d.items) |->
                 IF d.items[k][1] = key THEN <<key, value>> ELSE d.items[k]])
    ELSE JObj(Append(d.items, <<key, value>>))

\* Python truthiness: `if v:`
Truthy(v) ==
    CASE v.t = "null" -> FALSE
      [] v.t = "str"  -> Len(v.s) > 0
      [] v.t = "num"  -> v.n # 0
      [] v.t = "arr"  -> Len(v.items) > 0
      [] v.t = "obj"  -> Len(v.items) > 0

Quote    == "\""
EscQuote == "\\\""

\* the characters of a string as json.dumps writes them between the quotes
EscapeAtoms(s) == [k \in 1..Len(s) |-> IF s[k] = Quote THEN EscQuote ELSE s[k]]

\* json.dumps(v): the text of v as a sequence of atoms
RECURSIVE JsonDumps(_), DumpItems(_, _), DumpMembers(_, _)
JsonDumps(v) ==
    CASE v.t = "null" -> <<"null">>
      [] v.t = "num"  -> <<ToString(v.n)>>
      [] v.t = "str"  -> <<Quote>> \o EscapeAtoms(v.s) \o <<Quote>>
      [] v.t = "arr"  -> <<"[">> \o DumpItems(v.items, 1) \o <<"]">>
      [] v.t = "obj"  -> <<"{">> \o DumpMembers(v.items, 1) \o <<"}">>
DumpItems(xs, k) ==
    IF k > Len(xs) THEN <<>>
    ELSE (IF k > 1 THEN <<",">> ELSE <<>>) \o JsonDumps(xs[k]) \o DumpItems(xs, k + 1)
DumpMembers(kvs, k) ==
    IF k > Len(kvs) THEN <<>>
    ELSE (IF k > 1 THEN <<",">> ELSE <<>>)
         \o <<Quote, kvs[k][1], Quote, ":">> \o JsonDumps(kvs[k][2])
         \o DumpMembers(kvs, k + 1)

\* the atoms json.loads reads as a number
NumberAtoms == {ToString(n) : n \in 0..10}

\* A recursive-descent recogniser of JSON text.  Each Parse operator takes the
\* text and a position and gives the position after the construct, or 0.
RECURSIVE ParseValue(_, _), ParseStringEnd(_, _), ParseItems(_, _), ParseMembers(_, _)
ParseStringEnd(s, p) ==
    IF p > Len(s) THEN 0
    ELSE IF s[p] = Quote THEN p + 1
    ELSE ParseStringEnd(s, p + 1)
ParseString(s, p) ==
    IF p > Len(s) \/ s[p] # Quote THEN 0 ELSE ParseStringEnd(s, p + 1)
ParseValue(s, p) ==
    IF p = 0 \/ p > Len(s) THEN 0
    ELSE CASE s[p] = Quote -> ParseString(s, p)
           [] s[p] = "["  -> IF p < Len(s) /\ s[p + 1] = "]" THEN p + 2
                             ELSE ParseItems(s, p + 1)
           [] s[p] = "{"  -> IF p < Len(s) /\ s[p + 1] = "}" THEN p + 2
                             ELSE ParseMembers(s, p + 1)
           [] s[p] \in NumberAtoms \cup {"null", "true", "false"} -> p + 1
           [] OTHER -> 0
ParseItems(s, p) ==
    LET q == ParseValue(s, p)
    IN  IF q = 0 \/ q > Len(s) THEN 0
        ELSE IF s[q] = "]" THEN q + 1
        ELSE IF s[q] = "," THEN ParseItems(s, q + 1)
        ELSE 0
ParseMembers(s, p) ==
    LET k == ParseString(s, p)
    IN  IF k = 0 \/ k > Len(s) \/ s[k] # ":" THEN 0
        ELSE LET q == ParseValue(s, k + 1)
             IN  IF q = 0 \/ q > Len(s) THEN 0
                 ELSE IF s[q] = "}" THEN q + 1
                 ELSE IF s[q] = "," THEN ParseMembers(s, q + 1)
                 ELSE 0

\* json.loads(s) succeeds
IsValidJson(s) == Len(s) > 0 /\ ParseValue(s, 1) = Len(s) + 1

----------------------------------------------------------------------------
(* src/src/utils/exa_search.py: ExaSearchAdapter *)

\* "numResults": 10
NumResults == 10
\* "maxCharacters": 2000
MaxCharacters == 2000
\* "numSentences": 2
NumSentences == 2

\* _create_error_response(error_message)
CreateErrorResponse(error_message) ==
    JObj(<< <<"requestId", JStr(<<"error">>)>>,
            <<"resolvedSearchType", JStr(<<"error">>)>>,
            <<"results", JArr(<<>>)>>,
            <<"searchType", JStr(<<"error">>)>>,
            <<"context", JStr(<<"Error", ":">> \o error_message)>>,
            <<"costDollars", JObj(<< <<"total", JNum(0)>>,
                                     <<"breakDown", JArr(<<>>)>>,
                                     <<"perRequestPrices", JObj(<<>>)>>,
                                     <<"perPagePrices", JObj(<<>>)>> >>)>> >>)

\* what a call gives back: a value, or an exception with its str()
Returned(v) == [raised |-> FALSE, msg |-> <<>>, value |-> v]
Raised(m)   == [raised |-> TRUE, msg |-> m, value |-> JNull]

\* the request body of lines 64-79
BaseParams(query) ==
    JObj(<< <<"query", query>>,
            <<"type", JStr(<<"auto">>)>>,
            <<"numResults", JNum(NumResults)>>,
            <<"contents",
              JObj(<< <<"text", JObj(<< <<"maxCharacters", JNum(MaxCharacters)>> >>)>>,
                      <<"highlights", JObj(<< <<"numSentences", JNum(NumSentences)>> >>)>>,
                      <<"summary", JObj(<< <<"query", query>> >>)>> >>)>> >>)

\* a mapping that copies the two domain lists whether or not they are empty
MapWebsearchToExaNoEmptyCheck(websearch_input) ==
    IF websearch_input.t # "obj"
    THEN Raised(<<"object", "has", "no", "attribute", "get">>)
    ELSE
      LET p0 == BaseParams(DictGet(websearch_input, "query", JStr(<<>>)))
          p1 == DictSet(p0, "includeDomains",
                        DictGet(websearch_input, "allowed_domains", JArr(<<>>)))
          p2 == DictSet(p1, "excludeDomains",
                        DictGet(websearch_input, "blocked_domains", JArr(<<>>)))
      IN  Returned(DictSet(p2, "startCrawlDate", JStr(<<"2024-01-01">>)))

\* _map_websearch_to_exa(websearch_input); websearch_input.get raises when the
\* input is no dict
MapWebsearchToExa(websearch_input) ==
    IF websearch_input.t # "obj"
    THEN Raised(<<"object", "has", "no", "attribute", "get">>)
    ELSE
      LET p0 == BaseParams(DictGet(websearch_input, "query", JStr(<<>>)))
          allowed_domains == DictGet(websearch_input, "allowed_domains", JArr(<<>>))
          p1 == IF Truthy(allowed_domains)
                THEN DictSet(p0, "includeDomains", allowed_domains) ELSE p0
          blocked_domains == DictGet(websearch_input, "blocked_domains", JArr(<<>>))
          p2 == IF Truthy(blocked_domains)
                THEN DictSet(p1, "excludeDomains", blocked_domains) ELSE p1
      IN  Returned(DictSet(p2, "startCrawlDate", JStr(<<"2024-01-01">>)))

\* What the network does with client.post: an HTTP response (status, body text
\* that response.json() can or cannot decode) or a transport/timeout exception.
HttpResponse(status, decodable, body) ==
    [kind |-> "response", status |-> status, decodable |-> decodable,
     body |-> body, msg |-> <<>>]
HttpException(m) ==
    [kind |-> "exception", status |-> 0, decodable |-> FALSE, body |-> JNull, msg |-> m]

\* a 200 body in the backend's result shape
BodyPlain ==
    JObj(<< <<"requestId", JStr(<<"r1">>)>>,
            <<"results", JArr(<< JObj(<< <<"title", JStr(<<"Quantum", "news">>)>>,
                                         <<"url", JStr(<<"https", ":", "//", "a.com">>)>> >>) >>)>> >>)
\* a 200 body one of whose result titles reads "Web search results"
BodyWithMarker ==
    JObj(<< <<"requestId", JStr(<<"r2">>)>>,
            <<"results", JArr(<< JObj(<< <<"title", JStr(<<"Web", "search", "results">>)>> >>) >>)>> >>)

SearchOutcomes ==
    { HttpResponse(200, TRUE, BodyPlain),
      HttpResponse(200, TRUE, BodyWithMarker),
      HttpResponse(200, FALSE, JNull),
      HttpResponse(500, TRUE, JObj(<< <<"error", JStr(<<"internal">>)>> >>)),
      HttpException(<<"timed", "out">>) }

\* what the network does during the searches of the interceptor
InterceptOutcomes ==
    { HttpResponse(200, TRUE, BodyPlain),
      HttpResponse(200, TRUE, BodyWithMarker),
      HttpException(<<"timed", "out">>) }

\* the result of one ExaSearchAdapter.search call, with what it did on the way
Outcome(r, network, params) ==
    [raised |-> r.raised, msg |-> r.msg, value |-> r.value,
     network |-> network, params |-> params]

\* the body of the try block of search (lines 35-56)
SearchTry(websearch_input, http) ==
    LET exa_params == MapWebsearchToExa(websearch_input)
    IN  IF exa_params.raised THEN Outcome(exa_params, 0, JNull)
        ELSE IF http.kind = "exception"
             THEN Outcome(Raised(http.msg), 1, exa_params.value)
        ELSE IF http.status # 200
             THEN Outcome(Returned(CreateErrorResponse(
                              <<"Exa", "API", "error", ":", ToString(http.status)>>)),
                          1, exa_params.value)
        ELSE IF ~http.decodable
             THEN Outcome(Raised(<<"Expecting", "value">>), 1, exa_params.value)
        ELSE Outcome(Returned(http.body), 1, exa_params.value)

\* search without its except clause: a failure of the try block propagates
SearchNoExcept(websearch_input, key, http) ==
    IF ~key
    THEN Outcome(Returned(CreateErrorResponse(<<"EXA_API_KEY", "not", "configured">>)), 0, JNull)
    ELSE SearchTry(websearch_input, http)

\* search without the credential check of lines 30-32
SearchNoKeyCheck(websearch_input, key, http) ==
    LET r == SearchTry(websearch_input, http)
    IN  IF r.raised
        THEN Outcome(Returned(CreateErrorResponse(r.msg)), r.network, r.params)
        ELSE r

\* ExaSearchAdapter.search(websearch_input), with self.api_key set or not and
\* the network doing http
Search(websearch_input, key, http) ==
    IF ~key
    THEN Outcome(Returned(CreateErrorResponse(<<"EXA_API_KEY", "not", "configured">>)), 0, JNull)
    ELSE LET r == SearchTry(websearch_input, http)
         IN  IF r.raised
             THEN Outcome(Returned(CreateErrorResponse(r.msg)), r.network, r.params)
             ELSE r

\* process_websearch_via_exa(tool_input)
ProcessWebsearchViaExa(tool_input, key, http) == Search(tool_input, key, http)

(* The WebSearch inputs of the model: a query, present or not, and the two
   domain lists, each absent, null or a list of at most MaxDomains domains. *)
Absent == [t |-> "absent"]
DomainNames == {"a.com", "b.org"}
DomainOptions == {Absent, JNull} \cup {JArr(l) : l \in SeqsUpTo(DomainNames, MaxDomains)}
QueryOptions == {Absent, JStr(<<"quantum", "computing">>)}
MakeInput(q, a, b) ==
    JObj(SelectSeq(<< <<"query", q>>, <<"allowed_domains", a>>, <<"blocked_domains", b>> >>,
                   LAMBDA kv : kv[2] # Absent))
WebSearchInputs ==
    {MakeInput(q, a, b) : q \in QueryOptions, a \in DomainOptions, b \in DomainOptions}

----------------------------------------------------------------------------
(* The conversation: turns and content blocks (src.models.claude, as used by
   src/src/api/endpoints.py) *)

TextBlock(text) == [type |-> "text", text |-> text]
ToolUse(id, name, input) == [type |-> "tool_use", id |-> id, name |-> name, input |-> input]
ToolResult(tool_use_id, content) ==
    [type |-> "tool_result", tool_use_id |-> tool_use_id, content |-> content]
\* a turn; its content is a string (JStr) or a list of blocks (JArr)
Turn(role, content) == [role |-> role, content |-> content]

\* the content of the tool_result of src/test_websearch.py
PendingText == <<"Pending", "search", "results", "...">>
\* contents the backend leaves when it did not run the search
ApiErrorText == <<"API", "Error", ":", "400">>
ZeroSearchesText == <<"Did", "0", "searches", "in", "1s">>
WebResultsText == <<"Web", "search", "results", "for", "query", ":">>

ToolInput == MakeInput(JStr(<<"quantum", "computing">>), Absent, Absent)
ToolIds == {"t1", "t2"}

\* the blocks of an assistant turn: WebSearch calls, another tool's call, text
WebSearchCalls == {ToolUse(id, "WebSearch", ToolInput) : id \in ToolIds}
AssistantBlocks ==
    WebSearchCalls \cup {ToolUse("t1", "Bash", ToolInput), TextBlock(<<"I", "will", "search">>)}

\* the blocks of a user turn: tool results with string content, one with list
\* content, text
StringResults ==
    {ToolResult("t1", JStr(PendingText)),
     ToolResult("t1", JStr(ApiErrorText)),
     ToolResult("t1", JStr(ZeroSearchesText)),
     ToolResult("t2", JStr(WebResultsText))}
UserBlocks ==
    StringResults \cup {ToolResult("t1", JArr(<<TextBlock(WebResultsText)>>)),
                        TextBlock(<<"go", "on">>)}

EarlierTurn == Turn("user", JStr(<<"What", "is", "new", "?">>))

\* second-to-last turns: an assistant turn with a list of at most maxA of the
\* blocks, one with string content, and a user turn
SecondLastTurns(blocks, maxA) ==
    {Turn("assistant", JArr(l)) : l \in SeqsUpTo(blocks, maxA)}
    \cup {Turn("assistant", JStr(<<"I", "will", "search">>)),
          Turn("user", JArr(<<ToolUse("t1", "WebSearch", ToolInput)>>))}

\* last turns: a user turn with a list of at most maxU of the blocks, one with
\* string content, and an assistant turn
LastTurns(blocks, maxU) ==
    {Turn("user", JArr(l)) : l \in SeqsUpTo(blocks, maxU)}
    \cup {Turn("user", JStr(ApiErrorText)),
          Turn("assistant", JArr(<<ToolResult("t1", JStr(ApiErrorText))>>))}

\* the request of src/test_websearch.py
TestConversation ==
    << Turn("user", JStr(<<"What", "are", "the", "latest", "developments", "?">>)),
       Turn("assistant",
            JArr(<< TextBlock(<<"I", "will", "search">>),
                    ToolUse("test_tool_123", "WebSearch",
                            MakeInput(JStr(<<"quantum", "computing", "breakthroughs", "2025">>),
                                      Absent, Absent)) >>)),
       Turn("user", JArr(<< ToolResult("test_tool_123", JStr(PendingText)) >>)) >>

\* conversations of WebSearch calls and string tool results, no earlier turn
ToolConversations(maxA, maxU) ==
    {<<s, l>> : s \in SecondLastTurns(WebSearchCalls, maxA),
                l \in LastTurns(StringResults, maxU)}

\* conversations of any blocks: at most maxE earlier turns, then the last two
\* turns; and the conversations of a single turn
Conversations(maxB, maxE) ==
    {e \o <<s, l>> : e \in SeqsUpTo({EarlierTurn}, maxE),
                     s \in SecondLastTurns(AssistantBlocks, maxB),
                     l \in LastTurns(UserBlocks, maxB)}
    \cup {<<l>> : l \in LastTurns(UserBlocks, maxB)}
    \cup {TestConversation}

----------------------------------------------------------------------------
(* src/src/api/endpoints.py: intercept_websearch_in_request *)

SecondLast(msgs) == msgs[Len(msgs) - 1]
Last(msgs) == msgs[Len(msgs)]

\* lines 59 and 67-70
RolesAndShapesHold(msgs) ==
    /\ Len(msgs) >= 2
    /\ SecondLast(msgs).role = "assistant"
    /\ Last(msgs).role = "user"
    /\ SecondLast(msgs).content.t = "arr"
    /\ Last(msgs).content.t = "arr"

\* lines 75-77
IsWebSearchToolUse(assistant_block) ==
    assistant_block.type = "tool_use" /\ assistant_block.name = "WebSearch"

\* a match that does not compare the ids
IsMatchingToolResultAnyId(user_block, assistant_block) ==
    user_block.type = "tool_result"

\* lines 81-83
IsMatchingToolResult(user_block, assistant_block) ==
    user_block.type = "tool_result" /\ user_block.tool_use_id = assistant_block.id

\* lines 87-89
IsPlaceholder(current_content) ==
    /\ current_content.t = "str"
    /\ \/ Contains(current_content.s, <<"API", "Error">>)
       \/ Contains(current_content.s, <<"Did", "0", "searches">>)
       \/ Contains(current_content.s, <<"Web", "search", "results">>)

\* the pair (a, u) of block indices passes every test of lines 75-89
Triggers(msgs, a, u) ==
    LET assistant_block == SecondLast(msgs).content.items[a]
        user_block == Last(msgs).content.items[u]
    IN  /\ IsWebSearchToolUse(assistant_block)
        /\ IsMatchingToolResult(user_block, assistant_block)
        /\ IsPlaceholder(user_block.content)

\* the pairs the two nested loops have still to visit from position (a, u)
PairsFrom(msgs, a, u) ==
    {p \in (1..Len(SecondLast(msgs).content.items)) \X (1..Len(Last(msgs).content.items)) :
        p[1] > a \/ (p[1] = a /\ p[2] >= u)}

Before(p, q) == p[1] < q[1] \/ (p[1] = q[1] /\ p[2] <= q[2])

\* the pairs at which the loops, resumed at (a, u), will call the search next
Pending(msgs, a, u) ==
    IF RolesAndShapesHold(msgs)
    THEN {p \in PairsFrom(msgs, a, u) : Triggers(msgs, p[1], p[2])}
    ELSE {}

\* the first of a non-empty set of pairs, in the order the loops visit them
FirstPair(pairs) == CHOOSE p \in pairs : \A q \in pairs : Before(p, q)

\* text with every double quote replaced by a single one, as Python's str()
\* prints a dict
SingleQuoted(text) == [k \in 1..Len(text) |-> IF text[k] = Quote THEN "'" ELSE text[k]]

\* the new content written with str() where lines 97 and 103 use json.dumps
InjectedContentStr(r) ==
    IF r.raised
    THEN JStr(SingleQuoted(JsonDumps(
                 JObj(<< <<"error", JStr(<<"Search", "failed", ":">> \o r.msg)>>,
                         <<"results", JArr(<<>>)>> >>))))
    ELSE JStr(SingleQuoted(JsonDumps(r.value)))

\* lines 92-106: the new content of the tool_result, given what the search did
InjectedContent(r) ==
    IF r.raised
    THEN JStr(JsonDumps(JObj(<< <<"error", JStr(<<"Search", "failed", ":">> \o r.msg)>>,
                                <<"results", JArr(<<>>)>> >>)))
    ELSE JStr(JsonDumps(r.value))

\* user_block.content = content, for block u of the last turn
SetLastContent(msgs, u, content) ==
    [msgs EXCEPT ![Len(msgs)].content.items[u].content = content]

\* retrying the search once more when it came back with an error envelope
SearchAttemptsRetry(r) ==
    IF r.raised \/ DictGet(r.value, "requestId", JNull) = JStr(<<"error">>) THEN 2 ELSE 1

\* line 94: the search is awaited once, whatever it returns
SearchAttempts(r) == 1

\* a handler that calls the backend before it converts the request
NextStepBackendFirst(step) ==
    CASE step = "intercept"        -> "check_disconnect"
      [] step = "check_disconnect" -> "backend"
      [] step = "backend"          -> "convert"
      [] step = "convert"          -> "respond"
      [] step = "respond"          -> "done"

\* create_message, lines 120-187: the statement that follows each statement
\* of the try block when nothing is raised
NextStep(step) ==
    CASE step = "intercept"        -> "convert"
      [] step = "convert"          -> "check_disconnect"
      [] step = "check_disconnect" -> "backend"
      [] step = "backend"          -> "respond"
      [] step = "respond"          -> "done"

\* One pass of the loops up to and including the next search call (line 94)
\* and the replacement of the tool_result content (lines 97, 103).
InterceptSearch ==
    /\ pc = "intercept"
    /\ Pending(messages, ai, uj) # {}
    /\ LET p == FirstPair(Pending(messages, ai, uj))
           assistant_block == SecondLast(messages).content.items[p[1]]
       IN  \E http \in InterceptOutcomes :
             LET r == ProcessWebsearchViaExa(assistant_block.input, api_key, http)
             IN  /\ messages' = SetLastContent(messages, p[2], InjectedContent(r))
                 /\ searchCalls' = searchCalls + SearchAttempts(r)
                 /\ networkCalls' = networkCalls + SearchAttempts(r) * r.network
                 /\ sentParams' = r.params
                 /\ lastTrigger' = p
                 /\ ai' = p[1]
                 /\ uj' = p[2] + 1
    /\ steps' = Append(steps, "SearchAdapter")
    /\ UNCHANGED <<stream, orig, api_key, pc, openai_request, backendCalls,
                   raisedExc, response, exa_input, exa_outcome, exa_result>>
    /\ UNCHANGED <<authVars, countVars>>

\* The loops run out (or were never entered): line 108, return request.
InterceptReturn ==
    /\ pc = "intercept"
    /\ Pending(messages, ai, uj) = {}
    /\ pc' = NextStep("intercept")
    /\ steps' = Append(steps, "Interceptor")
    /\ UNCHANGED <<messages, stream, orig, api_key, ai, uj, searchCalls, networkCalls,
                   sentParams, lastTrigger, openai_request, backendCalls, raisedExc,
                   response, exa_input, exa_outcome, exa_result>>
    /\ UNCHANGED <<authVars, countVars>>

NoExc == [kind |-> "none", status |-> 0, detail |-> <<>>, at |-> "none"]
NoResponse == [kind |-> "none", status |-> 0, detail |-> <<>>]
NoHttp == [kind |-> "none", status |-> 0, decodable |-> FALSE, body |-> JNull, msg |-> <<>>]
NoResult == Outcome(Returned(JNull), 0, JNull)
NoAuthResult == [kind |-> "none", status |-> 0, detail |-> <<>>]
NoCountResult == [kind |-> "none", input_tokens |-> 0]

\* no call of validate_api_key under way
NoAuthRequest ==
    /\ x_api_key = JNull
    /\ authorization = JNull
    /\ anthropic_api_key = JNull

\* no call of count_tokens under way
NoCountRequest ==
    /\ count_system = JNull
    /\ count_messages = <<>>

\* everything but the request and the credential, as it is when a call starts
Fresh ==
    /\ ai = 1
    /\ uj = 1
    /\ searchCalls = 0
    /\ networkCalls = 0
    /\ sentParams = JNull
    /\ lastTrigger = <<0, 0>>
    /\ steps = <<>>
    /\ openai_request = <<>>
    /\ backendCalls = 0
    /\ raisedExc = NoExc
    /\ response = NoResponse
    /\ exa_outcome = NoHttp
    /\ exa_result = NoResult
    /\ auth_result = NoAuthResult
    /\ total_chars = 0
    /\ mi = 1
    /\ count_result = NoCountResult

(* intercept_websearch_in_request called on each conversation of the model *)
(* intercept_websearch_in_request called on each conversation of the model:
   the longer lists of WebSearch calls and string tool results with the credential
   configured, and the shorter lists of any blocks behind every number of
   earlier turns, with and without it *)
InitIntercept ==
    /\ \/ /\ api_key = TRUE
          /\ messages \in ToolConversations(MaxAssistantBlocks, MaxUserBlocks)
       \/ /\ api_key \in BOOLEAN
          /\ messages \in Conversations(MaxSideBlocks, MaxEarlierTurns)
    /\ orig = messages
    /\ stream = FALSE
    /\ pc = "intercept"
    /\ exa_input = JNull
    /\ NoAuthRequest
    /\ NoCountRequest
    /\ Fresh

NextIntercept == InterceptSearch \/ InterceptReturn

SpecIntercept == InitIntercept /\ [][NextIntercept]_vars

----------------------------------------------------------------------------
(* src/src/api/endpoints.py: create_message, POST /v1/messages *)

\* what a call of a collaborator does: it returns, or raises an HTTPException
\* or another Exception
CallOk == [kind |-> "ok", status |-> 0, detail |-> <<>>]
RaiseHttp(status, detail) == [kind |-> "HTTPException", status |-> status, detail |-> detail]
RaiseOther(detail) == [kind |-> "Exception", status |-> 0, detail |-> detail]

\* convert_claude_to_openai: returns the converted request or fails
ConvertOutcomes == {CallOk, RaiseOther(<<"unsupported", "content", "block">>)}

\* openai_client.create_chat_completion: returns the backend's response,
\* raises an HTTPException carrying the backend's status, or fails otherwise
BackendOutcomes ==
    {CallOk,
     RaiseHttp(429, <<"rate_limit", "exceeded">>),
     RaiseOther(<<"connection", "reset">>)}

\* convert_openai_to_claude_response: returns the response or fails
RespondOutcomes ==
    {CallOk,
     RaiseHttp(500, <<"No", "choices", "in", "response">>),
     RaiseOther(<<"missing", "field">>)}

\* openai_client.create_chat_completion_stream and
\* convert_openai_streaming_to_claude_with_cancellation give lazy sequences:
\* calling them runs nothing of the backend call and raises nothing
StreamOutcomes == {CallOk}

\* openai_client.classify_openai_error: one human-readable message for the
\* known error payloads, the text itself for the others
ClassifyOpenaiError(detail) ==
    IF Contains(detail, <<"rate_limit">>)
    THEN <<"Rate", "limit", "exceeded", ".", "Please", "wait">>
    ELSE detail

\* the exception e raised at statement `at`
ExcAt(e, at) == [kind |-> e.kind, status |-> e.status, detail |-> e.detail, at |-> at]

\* a handler that turns every exception into a 500
OuterExceptAll500(e) ==
    [kind |-> "raised_http", status |-> 500, detail |-> ClassifyOpenaiError(e.detail)]

\* lines 188-196: the except clauses of create_message
OuterExcept(e) ==
    IF e.kind = "HTTPException"
    THEN [kind |-> "raised_http", status |-> e.status, detail |-> e.detail]
    ELSE [kind |-> "raised_http", status |-> 500, detail |-> ClassifyOpenaiError(e.detail)]

\* lines 159-170: the except clause of the streaming branch, then the outer ones
StreamExcept(e) ==
    IF e.kind = "HTTPException"
    THEN [kind |-> "json_error", status |-> e.status, detail |-> ClassifyOpenaiError(e.detail)]
    ELSE OuterExcept(e)

\* a backend client that calls again after a failure
BackendAttemptsRetry(outcome) == IF outcome.kind = "ok" THEN 1 ELSE 2

\* lines 173-175 (and 139-141): the backend client is called once
BackendAttempts(outcome) == 1

\* line 127: openai_request = convert_claude_to_openai(request, model_manager)
Convert ==
    /\ pc = "convert"
    /\ steps' = Append(steps, "RequestConverter")
    /\ \E outcome \in ConvertOutcomes :
         IF outcome.kind = "ok"
         THEN /\ openai_request' = messages
              /\ pc' = NextStep("convert")
              /\ UNCHANGED <<raisedExc, response>>
         ELSE /\ raisedExc' = ExcAt(outcome, "convert")
              /\ response' = OuterExcept(outcome)
              /\ pc' = "done"
              /\ UNCHANGED openai_request
    /\ UNCHANGED <<messages, stream, orig, api_key, ai, uj, searchCalls, networkCalls,
                   sentParams, lastTrigger, backendCalls, exa_input, exa_outcome,
                   exa_result>>
    /\ UNCHANGED <<authVars, countVars>>

\* lines 133-134: if await http_request.is_disconnected(): raise HTTPException(499)
CheckDisconnect ==
    /\ pc = "check_disconnect"
    /\ \E is_disconnected \in BOOLEAN :
         IF is_disconnected
         THEN /\ raisedExc' = ExcAt(RaiseHttp(499, <<"Client", "disconnected">>),
                                    "check_disconnect")
              /\ response' = OuterExcept(RaiseHttp(499, <<"Client", "disconnected">>))
              /\ pc' = "done"
         ELSE /\ pc' = NextStep("check_disconnect")
              /\ UNCHANGED <<raisedExc, response>>
    /\ UNCHANGED <<messages, stream, orig, api_key, ai, uj, searchCalls, networkCalls,
                   sentParams, lastTrigger, steps, openai_request, backendCalls,
                   exa_input, exa_outcome, exa_result>>
    /\ UNCHANGED <<authVars, countVars>>

\* lines 136-170: the streaming branch; the stream and its converter are
\* created and handed to the StreamingResponse that is returned
BackendStream ==
    /\ pc = "backend"
    /\ stream
    /\ steps' = steps \o <<"BackendClient", "ResponseConverter">>
    /\ \E outcome \in StreamOutcomes :
         /\ backendCalls' = backendCalls + BackendAttempts(outcome)
         /\ IF outcome.kind = "ok"
            THEN /\ response' = [kind |-> "stream", status |-> 200, detail |-> <<>>]
                 /\ UNCHANGED raisedExc
            ELSE /\ raisedExc' = ExcAt(outcome, "stream")
                 /\ response' = StreamExcept(outcome)
    /\ pc' = "done"
    /\ UNCHANGED <<messages, stream, orig, api_key, ai, uj, searchCalls, networkCalls,
                   sentParams, lastTrigger, openai_request, exa_input, exa_outcome,
                   exa_result>>
    /\ UNCHANGED <<authVars, countVars>>

\* lines 173-175: openai_response = await openai_client.create_chat_completion(...)
BackendCall ==
    /\ pc = "backend"
    /\ ~stream
    /\ steps' = Append(steps, "BackendClient")
    /\ \E outcome \in BackendOutcomes :
         /\ backendCalls' = backendCalls + BackendAttempts(outcome)
         /\ IF outcome.kind = "ok"
            THEN /\ pc' = NextStep("backend")
                 /\ UNCHANGED <<raisedExc, response>>
            ELSE /\ raisedExc' = ExcAt(outcome, "backend")
                 /\ response' = OuterExcept(outcome)
                 /\ pc' = "done"
    /\ UNCHANGED <<messages, stream, orig, api_key, ai, uj, searchCalls, networkCalls,
                   sentParams, lastTrigger, openai_request, exa_input, exa_outcome,
                   exa_result>>
    /\ UNCHANGED <<authVars, countVars>>

\* lines 180-187: claude_response = convert_openai_to_claude_response(...); return
Respond ==
    /\ pc = "respond"
    /\ steps' = Append(steps, "ResponseConverter")
    /\ \E outcome \in RespondOutcomes :
         IF outcome.kind = "ok"
         THEN /\ response' = [kind |-> "json", status |-> 200, detail |-> <<>>]
              /\ UNCHANGED raisedExc
         ELSE /\ raisedExc' = ExcAt(outcome, "respond")
              /\ response' = OuterExcept(outcome)
    /\ pc' = "done"
    /\ UNCHANGED <<messages, stream, orig, api_key, ai, uj, searchCalls, networkCalls,
                   sentParams, lastTrigger, openai_request, backendCalls, exa_input,
                   exa_outcome, exa_result>>
    /\ UNCHANGED <<authVars, countVars>>

(* create_message called on each request of the model *)
Init ==
    /\ messages \in Conversations(MaxSideBlocks, 0)
    /\ orig = messages
    /\ stream \in BOOLEAN
    /\ api_key \in BOOLEAN
    /\ pc = "intercept"
    /\ exa_input = JNull
    /\ NoAuthRequest
    /\ NoCountRequest
    /\ Fresh

Next ==
    \/ InterceptSearch
    \/ InterceptReturn
    \/ Convert
    \/ CheckDisconnect
    \/ BackendStream
    \/ BackendCall
    \/ Respond

Spec == Init /\ [][Next]_vars

----------------------------------------------------------------------------
(* ExaSearchAdapter.search called directly on each input of the model *)

ExaSearch ==
    /\ pc = "exa_call"
    /\ \E http \in SearchOutcomes :
         LET r == Search(exa_input, api_key, http)
         IN  /\ exa_outcome' = http
             /\ exa_result' = r
             /\ networkCalls' = networkCalls + r.network
             /\ sentParams' = r.params
    /\ pc' = "exa_returned"
    /\ UNCHANGED <<messages, stream, orig, api_key, ai, uj, searchCalls, lastTrigger,
                   steps, openai_request, backendCalls, raisedExc, response, exa_input>>
    /\ UNCHANGED <<authVars, countVars>>

InitExa ==
    /\ messages = <<>>
    /\ orig = <<>>
    /\ stream = FALSE
    /\ api_key \in BOOLEAN
    /\ pc = "exa_call"
    /\ exa_input \in WebSearchInputs \cup {JNull}
    /\ NoAuthRequest
    /\ NoCountRequest
    /\ Fresh

NextExa == ExaSearch

SpecExa == InitExa /\ [][NextExa]_vars

----------------------------------------------------------------------------
(* Properties of ExaSearchAdapter.search, checked under SpecExa *)

\* v is the error envelope: requestId "error", no results, context
\* "Error: <message>", zeroed cost
IsErrorEnvelope(v) ==
    /\ v.t = "obj"
    /\ DictGet(v, "requestId", JNull) = JStr(<<"error">>)
    /\ DictGet(v, "results", JNull) = JArr(<<>>)
    /\ LET context == DictGet(v, "context", JNull)
       IN  /\ context.t = "str"
           /\ Len(context.s) > 2
           /\ SubSeq(context.s, 1, 2) = <<"Error", ":">>
    /\ DictGet(DictGet(v, "costDollars", JNull), "total", JNull) = JNum(0)
    /\ DictGet(DictGet(v, "costDollars", JNull), "breakDown", JNull) = JArr(<<>>)

\* the message of the envelope v
EnvelopeMessage(v) ==
    LET context == DictGet(v, "context", JNull).s IN SubSeq(context, 3, Len(context))

\* the call took one of the failure paths
ExaFailed ==
    \/ ~api_key
    \/ exa_input.t # "obj"
    \/ exa_outcome.kind = "exception"
    \/ exa_outcome.status # 200
    \/ ~exa_outcome.decodable

\* C5: ExaSearchAdapter.search never raises to its caller: on every failure
\* path (missing credential, parameter mapping failure, non-200 status,
\* transport or timeout exception, undecodable body) it returns the error
\* envelope, whose message after a transport exception is that exception's;
\* on HTTP 200 with a decodable body it returns the body unmodified.
Thm_C5_SearchNeverRaises ==
    pc = "exa_returned" =>
        /\ ~exa_result.raised
        /\ IF ExaFailed
           THEN /\ IsErrorEnvelope(exa_result.value)
                /\ (api_key /\ exa_input.t = "obj" /\ exa_outcome.kind = "exception")
                      => EnvelopeMessage(exa_result.value) = exa_outcome.msg
                /\ (api_key /\ exa_input.t = "obj" /\ exa_outcome.kind = "response"
                            /\ exa_outcome.status # 200)
                      => EnvelopeMessage(exa_result.value)
                            = <<"Exa", "API", "error", ":", ToString(exa_outcome.status)>>
           ELSE exa_result.value = exa_outcome.body

\* a call with the credential set in which the transport raised and the
\* caller got the error envelope
Wit_C5_TransportErrorCaptured ==
    /\ pc = "exa_returned"
    /\ api_key
    /\ exa_input.t = "obj"
    /\ exa_outcome.kind = "exception"
    /\ networkCalls = 1
    /\ IsErrorEnvelope(exa_result.value)

\* C6: with no credential configured, search returns the error envelope with
\* results [] and context "Error: EXA_API_KEY not configured", and issues no
\* network call, for every input.
Thm_C6_NoCredentialNoNetwork ==
    (pc = "exa_returned" /\ ~api_key) =>
        /\ ~exa_result.raised
        /\ IsErrorEnvelope(exa_result.value)
        /\ DictGet(exa_result.value, "context", JNull)
              = JStr(<<"Error", ":", "EXA_API_KEY", "not", "configured">>)
        /\ networkCalls = 0
        /\ sentParams = JNull

\* a call without credential, on a dict input, where the network would have
\* answered 200
Wit_C6_NoCredential ==
    /\ pc = "exa_returned"
    /\ ~api_key
    /\ exa_input.t = "obj"
    /\ exa_outcome.kind = "response" /\ exa_outcome.status = 200 /\ exa_outcome.decodable
    /\ networkCalls = 0
    /\ IsErrorEnvelope(exa_result.value)

\* v is a list with at least one element
IsNonEmptyList(v) == v.t = "arr" /\ Len(v.items) > 0

----------------------------------------------------------------------------
(* Properties of intercept_websearch_in_request, checked under SpecIntercept *)

\* the blocks of a turn with list content
Blocks(turn) == turn.content.items

\* the pairs <<a, u>> of a WebSearch tool_use block of the second-to-last turn
\* and a tool_result block of the last turn with that tool_use's id
MatchingPairs(msgs) ==
    IF /\ Len(msgs) >= 2
       /\ msgs[Len(msgs) - 1].role = "assistant" /\ msgs[Len(msgs) - 1].content.t = "arr"
       /\ msgs[Len(msgs)].role = "user" /\ msgs[Len(msgs)].content.t = "arr"
    THEN {p \in (1..Len(Blocks(msgs[Len(msgs) - 1]))) \X (1..Len(Blocks(msgs[Len(msgs)]))) :
            LET a == Blocks(msgs[Len(msgs) - 1])[p[1]]
                u == Blocks(msgs[Len(msgs)])[p[2]]
            IN  /\ a.type = "tool_use" /\ a.name = "WebSearch"
                /\ u.type = "tool_result" /\ u.tool_use_id = a.id}
    ELSE {}

\* the content is a string holding one of the three placeholder markers
HasMarker(content) ==
    /\ content.t = "str"
    /\ \E marker \in {<<"API", "Error">>, <<"Did", "0", "searches">>,
                      <<"Web", "search", "results">>} : Contains(content.s, marker)

\* the matching pairs whose tool_result is a placeholder
PlaceholderPairs(msgs) ==
    {p \in MatchingPairs(msgs) : HasMarker(Blocks(msgs[Len(msgs)])[p[2]].content)}

\* the trigger condition of the interceptor
TriggerHolds(msgs) == PlaceholderPairs(msgs) # {}

\* intercept_websearch_in_request has returned
Intercepted == pc # "intercept"

Thm_C2_TriggerInjectsJson ==
    TriggerHolds(orig) =>
        /\ Len(messages) = Len(orig)
        /\ \A k \in 1..(Len(orig) - 2) : messages[k] = orig[k]
        /\ Intercepted =>
             \A p \in PlaceholderPairs(orig) :
                LET content == Blocks(messages[Len(messages)])[p[2]].content
                IN  content.t = "str" /\ IsValidJson(content.s)

\* the interceptor returned after a search in a conversation that has a turn
\* before the last two
Wit_C2_InjectedBehindEarlierTurn ==
    /\ Intercepted
    /\ TriggerHolds(orig)
    /\ Len(orig) > 2
    /\ searchCalls > 0
    /\ messages # orig

\* C3 as stated: the interceptor calls the search adapter at most once while
\* it handles one request.
Cex_C3_AtMostOneSearch == searchCalls <= 1

\* C3, amended: the interceptor calls the search adapter at most once for each
\* pair of a WebSearch tool_use block and a tool_result block with its id, and
\* each call issues at most one request to the search backend.
Thm_C3_OneSearchPerPair ==
    /\ searchCalls <= Cardinality(MatchingPairs(orig))
    /\ networkCalls <= searchCalls

\* two pairs matched and the interceptor returned after two searches
Wit_C3_TwoPairsTwoSearches ==
    /\ Intercepted
    /\ Cardinality(MatchingPairs(orig)) = 2
    /\ searchCalls = 2

\* C4 as stated: when the last two turns are an assistant turn with a
\* WebSearch tool_use block and a user turn with a tool_result block of the
\* same id whose content is the placeholder "Pending search results...", the
\* interceptor executes the search and replaces that content with the results.
Cex_C4_PendingPlaceholderReplaced ==
    (Intercepted /\ orig = TestConversation) =>
        /\ searchCalls > 0
        /\ Blocks(messages[Len(messages)])[1].content # JStr(PendingText)

----------------------------------------------------------------------------
(* Properties of create_message, checked under Spec *)

\* the components in the order the design gives them
ControlFlow == <<"Interceptor", "RequestConverter", "BackendClient", "ResponseConverter">>

\* C8: the steps of a handling occur in the order Interceptor (with its
\* search calls), Request Converter, Backend Client, Response Converter; the
\* request handed to the converter is the conversation as the interceptor
\* left it; the backend is called only after conversion and the response
\* converter only after the backend call.
Thm_C8_ControlFlowOrder ==
    /\ Len(steps) >= searchCalls
    /\ \A k \in 1..searchCalls : steps[k] = "SearchAdapter"
    /\ LET rest == SubSeq(steps, searchCalls + 1, Len(steps))
       IN  /\ Len(rest) <= Len(ControlFlow)
           /\ rest = SubSeq(ControlFlow, 1, Len(rest))
    /\ openai_request # <<>> => openai_request = messages
    /\ backendCalls > 0 => openai_request # <<>>

\* a non-streaming request went through all four components after a search
\* and the converter was given the injected result
Wit_C8_FullPipelineAfterSearch ==
    /\ pc = "done"
    /\ searchCalls = 1
    /\ messages # orig
    /\ openai_request = messages
    /\ response.kind = "json"
    /\ steps = <<"SearchAdapter">> \o ControlFlow

\* C9 as stated: the backend call is attempted exactly once for every request.
Cex_C9_ExactlyOnceEveryRequest == pc = "done" => backendCalls = 1

\* C9, amended: the backend call is attempted at most once per request and
\* never retried after a failure; it is attempted exactly once unless request
\* conversion failed or the client had disconnected before the call, and then
\* not at all.
Thm_C9_BackendAtMostOnce ==
    /\ backendCalls <= 1
    /\ pc = "done" =>
         (backendCalls = 0 <=> raisedExc.at \in {"convert", "check_disconnect"})

\* the backend call of a non-streaming request failed and the handling ended
\* after that one attempt
Wit_C9_FailureNotRetried ==
    /\ pc = "done"
    /\ ~stream
    /\ raisedExc.at = "backend"
    /\ backendCalls = 1

----------------------------------------------------------------------------
(* validate_api_key (src/src/api/endpoints.py, lines 29-49), the dependency
   of the POST endpoints, called on each pair of headers of the model *)

\* longest header value, in atoms
MaxHeaderLen == 3

\* the scheme prefix of lines 36-37, one atom
BearerPrefix == <<"Bearer ">>

\* Python's s.startswith(prefix)
StartsWith(s, prefix) ==
    Len(s) >= Len(prefix) /\ SubSeq(s, 1, Len(prefix)) = prefix

\* Python's s.replace(old, new): every non-overlapping occurrence, left to right
RECURSIVE StrReplace(_, _, _)
StrReplace(s, old, new) ==
    IF s = <<>> THEN <<>>
    ELSE IF StartsWith(s, old)
         THEN new \o StrReplace(SubSeq(s, Len(old) + 1, Len(s)), old, new)
         ELSE <<Head(s)>> \o StrReplace(Tail(s), old, new)

\* config.validate_client_api_key: the shared secret, compared for equality
ValidateClientApiKey(client_api_key, secret) ==
    IF ~Truthy(secret) THEN TRUE ELSE client_api_key = secret

\* lines 31-37: the key the function extracts from the two headers
ClientApiKey(x, auth) ==
    IF Truthy(x) THEN x
    ELSE IF Truthy(auth) /\ StartsWith(auth.s, BearerPrefix)
         THEN JStr(StrReplace(auth.s, BearerPrefix, <<>>))
         ELSE JNull

AuthAccepted == [kind |-> "returned", status |-> 0, detail |-> <<>>]
AuthRejected ==
    [kind |-> "raised_http", status |-> 401,
     detail |-> <<"Invalid", "API", "key">>]

\* lines 29-49
ValidateApiKeyResult(x, auth, secret) ==
    LET client_api_key == ClientApiKey(x, auth)
    IN  IF ~Truthy(secret) THEN AuthAccepted
        ELSE IF ~Truthy(client_api_key) \/ ~ValidateClientApiKey(client_api_key, secret)
             THEN AuthRejected
             ELSE AuthAccepted

\* header values: a header is absent (None) or a string
KeyAtoms == {"sk", "x"}
XApiKeyHeaders == {JNull} \cup {JStr(s) : s \in SeqsUpTo(KeyAtoms, 1)}
AuthorizationHeaders ==
    {JNull} \cup {JStr(s) : s \in SeqsUpTo(KeyAtoms \cup {"Bearer "}, MaxHeaderLen)}
\* ANTHROPIC_API_KEY: unset, empty, or a key
ServerSecrets == {JNull, JStr(<<>>), JStr(<<"sk">>)}

ValidateApiKey ==
    /\ pc = "auth_call"
    /\ auth_result' = ValidateApiKeyResult(x_api_key, authorization, anthropic_api_key)
    /\ pc' = "auth_returned"
    /\ UNCHANGED <<messages, stream, orig, api_key, ai, uj, searchCalls, networkCalls,
                   sentParams, lastTrigger, steps, openai_request, backendCalls,
                   raisedExc, response, exa_input, exa_outcome, exa_result,
                   x_api_key, authorization, anthropic_api_key, countVars>>

InitAuth ==
    /\ messages = <<>>
    /\ orig = <<>>
    /\ stream = FALSE
    /\ api_key = FALSE
    /\ pc = "auth_call"
    /\ exa_input = JNull
    /\ x_api_key \in XApiKeyHeaders
    /\ authorization \in AuthorizationHeaders
    /\ anthropic_api_key \in ServerSecrets
    /\ NoCountRequest
    /\ Fresh

NextAuth == ValidateApiKey

SpecAuth == InitAuth /\ [][NextAuth]_vars

----------------------------------------------------------------------------
(* Properties of validate_api_key, checked under SpecAuth *)

\* the key a request supplies: the x-api-key header if it is non-empty,
\* otherwise what follows "Bearer " in an Authorization header that starts with it
SuppliedKey ==
    IF Truthy(x_api_key) THEN x_api_key
    ELSE IF Truthy(authorization) /\ StartsWith(authorization.s, BearerPrefix)
         THEN JStr(SubSeq(authorization.s, Len(BearerPrefix) + 1, Len(authorization.s)))
         ELSE JNull

SuppliesValidKey ==
    Truthy(SuppliedKey) /\ ValidateClientApiKey(SuppliedKey, anthropic_api_key)

\* C11 (as stated): with no server-side secret every request is accepted,
\* whatever its headers; with a secret, a request is rejected with HTTP 401
\* unless the key it supplies (x-api-key if non-empty, otherwise the bearer
\* token of Authorization) validates.
Cex_C11_RejectedUnlessKeyValidates ==
    pc = "auth_returned" =>
        IF ~Truthy(anthropic_api_key)
        THEN auth_result = AuthAccepted
        ELSE (~SuppliesValidKey => auth_result = AuthRejected)

----------------------------------------------------------------------------
(* count_tokens (src/src/api/endpoints.py, lines 199-234), called on each
   token-count request of the model.  Only the length of a string matters to
   it, so a string is modelled here by its number of characters. *)

\* most messages of a token-count request
MaxCountMessages == 2
\* longest block list of a system prompt or of a message content
MaxCountBlocks == 1

\* a Python string of n characters
StrOfLen(n) == [t |-> "chars", len |-> n]
\* len(s)
PyLen(s) == s.len

\* content blocks: a text block, a text block whose text is None, and a block
\* of another type, which has no text attribute
CountTextBlock(text) == [type |-> "text", text |-> text]
CountToolUseBlock == [type |-> "tool_use", id |-> "t1", name |-> "WebSearch"]
\* hasattr(block, "text")
HasAttrText(block) == "text" \in DOMAIN block

\* lengths of the system prompt and of string contents
StringLengths == {0, 3, 40, 80}
\* a system block's text is a string; a message block's text may be None
SystemBlocks == {CountTextBlock(StrOfLen(5)), CountToolUseBlock}
MessageBlocks == {CountTextBlock(StrOfLen(5)), CountTextBlock(JNull), CountToolUseBlock}

\* request.system: None, a string, or a list of blocks
SystemPrompts ==
    {JNull} \cup {StrOfLen(n) : n \in StringLengths}
            \cup {JArr(bs) : bs \in SeqsUpTo(SystemBlocks, MaxCountBlocks)}
\* msg.content: None, a string, or a list of blocks
CountContents ==
    {JNull} \cup {StrOfLen(n) : n \in StringLengths}
            \cup {JArr(bs) : bs \in SeqsUpTo(MessageBlocks, MaxCountBlocks)}
CountMessageLists ==
    SeqsUpTo({[role |-> "user", content |-> c] : c \in CountContents}, MaxCountMessages)

\* `if request.system:` (line 208)
SystemTruthy(system) ==
    CASE system.t = "null"  -> FALSE
      [] system.t = "chars" -> system.len > 0
      [] system.t = "arr"   -> Len(system.items) > 0

\* lines 212-214: the characters a list of system blocks adds
RECURSIVE SystemBlockChars(_)
SystemBlockChars(blocks) ==
    IF blocks = <<>> THEN 0
    ELSE (IF HasAttrText(Head(blocks)) THEN PyLen(Head(blocks).text) ELSE 0)
         + SystemBlockChars(Tail(blocks))

\* lines 208-214: the characters the system prompt adds
SystemChars(system) ==
    IF ~SystemTruthy(system) THEN 0
    ELSE IF system.t = "chars" THEN PyLen(system)
    ELSE SystemBlockChars(system.items)

\* lines 223-225: the characters a list of message blocks adds
RECURSIVE MessageBlockChars(_)
MessageBlockChars(blocks) ==
    IF blocks = <<>> THEN 0
    ELSE (IF HasAttrText(Head(blocks)) /\ Head(blocks).text # JNull
          THEN PyLen(Head(blocks).text) ELSE 0)
         + MessageBlockChars(Tail(blocks))

\* lines 218-225: the characters one message adds
MessageChars(msg) ==
    CASE msg.content.t = "null"  -> 0
      [] msg.content.t = "chars" -> PyLen(msg.content)
      [] msg.content.t = "arr"   -> MessageBlockChars(msg.content.items)

Max(a, b) == IF a >= b THEN a ELSE b

\* the estimate with the floor of one token left out
EstimatedTokensNoFloor(chars) == chars \div 4

\* line 228: estimated_tokens = max(1, total_chars // 4)
EstimatedTokens(chars) == Max(1, chars \div 4)

\* lines 205-214: the system prompt is counted
CountSystem ==
    /\ pc = "count_system"
    /\ total_chars' = total_chars + SystemChars(count_system)
    /\ pc' = "count_messages"
    /\ UNCHANGED <<messages, stream, orig, api_key, ai, uj, searchCalls, networkCalls,
                   sentParams, lastTrigger, steps, openai_request, backendCalls,
                   raisedExc, response, exa_input, exa_outcome, exa_result, authVars,
                   count_system, count_messages, mi, count_result>>

\* lines 217-225: one round of `for msg in request.messages`
CountMessage ==
    /\ pc = "count_messages"
    /\ mi <= Len(count_messages)
    /\ total_chars' = total_chars + MessageChars(count_messages[mi])
    /\ mi' = mi + 1
    /\ UNCHANGED <<messages, stream, orig, api_key, pc, ai, uj, searchCalls,
                   networkCalls, sentParams, lastTrigger, steps, openai_request,
                   backendCalls, raisedExc, response, exa_input, exa_outcome,
                   exa_result, authVars, count_system, count_messages, count_result>>

\* lines 228-230: the loop has run out; the estimate is returned
CountReturn ==
    /\ pc = "count_messages"
    /\ mi > Len(count_messages)
    /\ count_result' = [kind |-> "returned",
                        input_tokens |-> EstimatedTokens(total_chars)]
    /\ pc' = "count_returned"
    /\ UNCHANGED <<messages, stream, orig, api_key, ai, uj, searchCalls, networkCalls,
                   sentParams, lastTrigger, steps, openai_request, backendCalls,
                   raisedExc, response, exa_input, exa_outcome, exa_result, authVars,
                   count_system, count_messages, total_chars, mi>>

InitCount ==
    /\ messages = <<>>
    /\ orig = <<>>
    /\ stream = FALSE
    /\ api_key = FALSE
    /\ pc = "count_system"
    /\ exa_input = JNull
    /\ NoAuthRequest
    /\ count_system \in SystemPrompts
    /\ count_messages \in CountMessageLists
    /\ Fresh

NextCount ==
    \/ CountSystem
    \/ CountMessage
    \/ CountReturn

SpecCount == InitCount /\ [][NextCount]_vars

----------------------------------------------------------------------------
(* Properties of count_tokens, checked under SpecCount *)

RECURSIVE SumSeq(_)
SumSeq(ns) == IF ns = <<>> THEN 0 ELSE Head(ns) + SumSeq(Tail(ns))

\* the length of the text of each block of a list: that of a text block that
\* has a text, nothing for any other block
TextLengths(blocks) ==
    [k \in 1..Len(blocks) |->
        IF blocks[k].type = "text" /\ blocks[k].text # JNull
        THEN blocks[k].text.len ELSE 0]

\* the length of a system prompt or of a message content: a string's length,
\* or the sum over its text blocks
TextChars(v) ==
    CASE v.t = "null"  -> 0
      [] v.t = "chars" -> v.len
      [] v.t = "arr"   -> SumSeq(TextLengths(v.items))

\* total characters of the request: the system prompt plus all message text
TotalCharacters ==
    TextChars(count_system)
    + SumSeq([k \in 1..Len(count_messages) |-> TextChars(count_messages[k].content)])

\* C12 (as stated): count_tokens returns input_tokens equal to the floor of
\* total characters / 4 for every token-count request.
Cex_C12_FloorOfQuarter ==
    pc = "count_returned" => count_result.input_tokens = TotalCharacters \div 4

\* C12 (amended): count_tokens returns input_tokens equal to the floor of
\* total characters / 4 when the request has at least 4 characters of text,
\* and 1 when it has fewer; 40 + 80 characters give 30.
Thm_C12_FloorOfQuarterAtLeastOne ==
    pc = "count_returned" =>
        /\ count_result.kind = "returned"
        /\ TotalCharacters >= 4 => count_result.input_tokens = TotalCharacters \div 4
        /\ TotalCharacters < 4 => count_result.input_tokens = 1

\* a system string of 40 characters and one user message of 80 give 30
Wit_C12_FortyPlusEightyGivesThirty ==
    /\ pc = "count_returned"
    /\ count_system = StrOfLen(40)
    /\ Len(count_messages) = 1
    /\ count_messages[1].content = StrOfLen(80)
    /\ count_result.input_tokens = 30

====
